---------------------------- MODULE Spec2Model ----------------------------
(***************************************************************************)
(* Model of the widget-to-variable binding layer of liikelaaj              *)
(* (src/liikelaaj/liikelaajuus.py, the file-backed variant, and           *)
(* src/liikelaaj/sql_entryapp.py, the database-backed variant): the        *)
(* registry of input widgets, the per-type value codec, the                *)
(* weight-normalisation callback, values_changed, load_file / _read_data,  *)
(* restore_forms and the clear dialog, the save / load dialogs, the temp   *)
(* file and closeEvent.                                                    *)
(*                                                                         *)
(* Specifications                                                          *)
(*  - Spec: edits, loads of user files from two paths, clear, opening a    *)
(*    database row.                                                        *)
(*  - SpecFiles: edits, saves and loads through the disk, close, restart   *)
(*    with recovery of the temp file.                                      *)
(*  - SpecCodec: values pushed through setVal and read back with getVal,   *)
(*    widgets read as they are, units.                                     *)
(*  - SpecRegistry: init_widgets and read_forms on forms of any widgets.   *)
(*  - SpecTwin: the two variants given the same record and the same edits, *)
(*    with the writes of the temp file and the calls of values_changed.    *)
(*                                                                         *)
(* Conventions                                                             *)
(*  - Widget object names and variable names are sequences of characters,  *)
(*    so that the slicing of the naming convention (wname[:2], wname[2:],  *)
(*    wname[-4:], str.replace) is computed as the code computes it.        *)
(*  - A value (widget native value or record value) is a record            *)
(*    [tag, n, d, s, lead, trail]: a number n/d in lowest terms, or a      *)
(*    text made of `lead` blanks, the text s and `trail` blanks.           *)
(*  - Handlers run to completion on the single GUI thread; each action of  *)
(*    the model is one whole handler.  The handler's code is a chain of    *)
(*    operators over a "machine state" record st (the fields of EntryApp   *)
(*    it reads and writes plus the bookkeeping fields exc, hook, ev).      *)
(***************************************************************************)
EXTENDS Integers, Sequences, FiniteSets, TLC

VARIABLES
    wv,                  \* native value held by every input widget
    data,                \* self.data
    data_empty,          \* self.data_empty
    aliased,             \* self.data and self.data_empty are one dict object
    update_dict,         \* self.update_dict
    save_to_tmp,         \* self.save_to_tmp
    saved_to_file,       \* self.saved_to_file
    last_saved_filepath, \* self.last_saved_filepath
    tmpfile,             \* content of Config.tmpfile_path, or NoFile
    variant,             \* "file" (liikelaajuus.py) or "sql" (sql_entryapp.py)
    db,                  \* the row of table roms with rom_id, or NoRow
    disk,                \* content of the user's data file, or NoFile
    codec,               \* a value on its way through setVal and getVal
    reg,                 \* a form on its way through init_widgets
    twin,                \* the database-backed application run side by side
    running,             \* FALSE once the fatal exception hook has quit the app
    input_order,         \* iteration order of self.input_widgets
    last                 \* what the last handler did (history, see Last*)

vars == <<wv, data, data_empty, aliased, update_dict, save_to_tmp, saved_to_file,
          last_saved_filepath, tmpfile, variant, db, disk, codec, reg, twin,
          running, input_order, last>>

-----------------------------------------------------------------------------
(* Values *)

Num(n, d) == [tag |-> "num", n |-> n, d |-> d, s |-> "", lead |-> 0, trail |-> 0]

Text(lead, s, trail) ==
    [tag |-> "str", n |-> 0, d |-> 1, s |-> s, lead |-> lead, trail |-> trail]

Str(s) == Text(0, s, 0)

\* str.strip(): leading and trailing blanks removed
strip(v) == [v EXCEPT !.lead = 0, !.trail = 0]

RECURSIVE Gcd(_, _)
Gcd(a, b) == IF b = 0 THEN a ELSE Gcd(b, a % b)

Abs(x) == IF x < 0 THEN -x ELSE x

\* a / b of two numbers, b # 0 (Python true division, kept exact)
Quot(a, b) ==
    LET p == a.n * b.d
        q == a.d * b.n
        sgn == IF q < 0 THEN -1 ELSE 1
        g == Gcd(Abs(p), Abs(q))
    IN  Num(sgn * (p \div g), sgn * (q \div g))

-----------------------------------------------------------------------------
(* Configuration: Config.* and the widget properties set in the .ui file *)

spinbox_novalue_text == Str("Ei mitattu")
checkbox_yestext == Str("Kylla")
checkbox_notext == Str("Ei")

\* every spinbox has the same minimum, shown as the "no value" special text
SpinMin == -1

NoFile == [exists |-> FALSE, text |-> {}]
NoPath == "None"
\* Config.tmpfile_path and the path the user picks in the file dialogs
TmpPath == "tmp.json"
OtherPath == "b.json"
UserPath == "a.json"

\* a NULL column of the database row
Null == [tag |-> "null", n |-> 0, d |-> 1, s |-> "", lead |-> 0, trail |-> 0]
NoRow == [exists |-> FALSE, row |-> <<>>]

-----------------------------------------------------------------------------
(* Widget names and the naming convention *)

Take(s, k) == SubSeq(s, 1, IF k < Len(s) THEN k ELSE Len(s))
Drop(s, k) == SubSeq(s, (IF k < Len(s) THEN k ELSE Len(s)) + 1, Len(s))
LastK(s, k) == SubSeq(s, (IF k < Len(s) THEN Len(s) - k ELSE 0) + 1, Len(s))

\* str.replace(old, new): every non-overlapping occurrence, left to right
RECURSIVE Replace(_, _, _)
Replace(s, old, new) ==
    IF Len(s) < Len(old) \/ Len(old) = 0 THEN s
    ELSE IF Take(s, Len(old)) = old
         THEN new \o Replace(Drop(s, Len(old)), old, new)
         ELSE <<Head(s)>> \o Replace(Tail(s), old, new)

cNorm == <<"N", "o", "r", "m">>
cNormUn == <<"N", "o", "r", "m", "U", "n">>

spAntropPaino == <<"s", "p", "A", "n", "t", "r", "o", "p", "P", "a", "i", "n", "o">>
spVoimaNormUn == <<"s", "p", "V", "o", "i", "m", "a">> \o cNormUn
spVoimaNorm == <<"s", "p", "V", "o", "i", "m", "a">> \o cNorm
cbSivu == <<"c", "b", "S", "i", "v", "u">>
rdonly_ssn == <<"r", "d", "o", "n", "l", "y", "_", "s", "s", "n">>

\* self.findChildren(QtWidgets.QWidget)
allwidgets ==
    {spAntropPaino, spVoimaNormUn, spVoimaNorm, cbSivu, rdonly_ssn}

\* the prefix test of the binding loop, in the order the code tests
WidgetKind(wname) ==
    IF Take(wname, 2) = <<"s", "p">> THEN "sp"
    ELSE IF Take(wname, 2) = <<"l", "n">> THEN "ln"
    ELSE IF Take(wname, 2) = <<"c", "b">> THEN "cb"
    ELSE IF Take(wname, 3) = <<"c", "m", "t">> THEN "cmt"
    ELSE IF Take(wname, 2) = <<"x", "b">> THEN "xb"
    ELSE IF Take(wname, 3) = <<"c", "s", "b">> THEN "csb"
    ELSE "none"

\* the kind every widget of the form is bound as
widget_kind == [w \in allwidgets |-> WidgetKind(w)]

input_widgets == {w \in allwidgets : widget_kind[w] # "none"}

\* the variable name always taken as wname[2:]
var_of_two(wname) == Drop(wname, 2)

\* the variable name of input widget wname
var_of(wname) ==
    IF Take(wname, 3) = <<"c", "m", "t">> THEN wname
    ELSE IF Take(wname, 3) = <<"c", "s", "b">> THEN Drop(wname, 3)
    ELSE Drop(wname, 2)

widget_to_var == [wname \in input_widgets |-> var_of(wname)]

weight_widget == spAntropPaino

\* wname[-4:] == 'Norm'
is_autowidget(wname) == LastK(wname, 4) = cNorm

\* the derived widget taken for its own unnormalised sibling
wname_unnorm_self(wname) == wname

\* wname.replace('Norm', 'NormUn')
wname_unnorm(wname) == Replace(wname, cNorm, cNormUn)

autowidgets == {w \in allwidgets : is_autowidget(w)}

\* w._autoinputs = [w_unnorm, weight_widget]
autoinputs == [w \in autowidgets |-> <<wname_unnorm(w), weight_widget>>]

\* autowidgets_this of values_changed, for every input widget
autowidgets_this ==
    [w \in input_widgets |->
        {a \in autowidgets : \E i \in 1..2 : autoinputs[a][i] = w}]

Vars == {widget_to_var[w] : w \in input_widgets}

-----------------------------------------------------------------------------
(* Widget properties from the .ui file *)

\* the items of a combobox
Options(w) == {Str("Oikea"), Str("Vasen")}

\* the native values a user can give a widget
WeightValues == {Num(0, 1), Num(80, 1)}
RawValues == {Num(40, 1)}

UserValues(w) ==
    CASE widget_kind[w] = "sp" ->
            {Num(SpinMin, 1)} \cup (IF w = weight_widget THEN WeightValues ELSE RawValues)
      [] widget_kind[w] = "cb" -> Options(w)
      [] widget_kind[w] = "xb" -> {Num(0, 1), Num(2, 1)}
      [] OTHER -> {}

\* the value every widget shows in the freshly loaded form
DefaultNative(w) ==
    CASE widget_kind[w] = "sp" -> Num(SpinMin, 1)
      [] widget_kind[w] = "cb" -> Str("Oikea")
      [] widget_kind[w] = "xb" -> Num(0, 1)
      [] OTHER -> Str("")

-----------------------------------------------------------------------------
(* Value codec: the getVal / setVal closures of init_widgets *)

\* spinbox_getval testing for zero instead of the minimum
spinbox_getval_zero(w, v) == IF v = Num(0, 1) THEN spinbox_novalue_text ELSE v

spinbox_getval(w, v) == IF v = Num(SpinMin, 1) THEN spinbox_novalue_text ELSE v

\* checkbox_getval taking every check state but 0 for checked
checkbox_getval_exc_none(v) == ""

\* the exception checkbox_getval raises on native value v, "" if none
checkbox_getval_exc(v) == IF v.n = 0 \/ v.n = 2 THEN "" ELSE "Exception"

checkbox_getval(v) == IF v.n = 0 THEN checkbox_notext ELSE checkbox_yestext

combobox_getval(v) == v

\* w.getVal of a widget bound as kind, w its name
getValKind(kind, w, v) ==
    CASE kind = "sp" -> spinbox_getval(w, v)
      [] kind = "ln" -> strip(v)
      [] kind = "cb" -> combobox_getval(v)
      [] kind = "cmt" -> strip(v)
      [] kind = "xb" -> checkbox_getval(v)
      [] OTHER -> v

getVal(w, v) == getValKind(widget_kind[w], w, v)

\* the exception w.getVal() raises in a widget bound as kind, "" if none
getValKind_exc(kind, v) == IF kind = "xb" THEN checkbox_getval_exc(v) ELSE ""

getVal_exc(w, v) == getValKind_exc(widget_kind[w], v)

\* the native value spinbox_setval hands to w.setValue
spinbox_native(val) ==
    IF val = spinbox_novalue_text THEN Num(SpinMin, 1) ELSE val

\* the check state checkbox_setval hands to w.setCheckState
checkbox_native(val) == IF val = checkbox_yestext THEN Num(2, 1) ELSE Num(0, 1)

\* combobox_setval taking every text for an item
combobox_setval_exc_none(w, val) == ""

\* the exception combobox_setval raises: w.findText(val) < 0
combobox_setval_exc(w, val) == IF val \in Options(w) THEN "" ELSE "ValueError"

\* the exception w.setVal(val) raises in a widget bound as kind, "" if none
setVal_exc(kind, w, val) ==
    CASE kind = "xb" ->
            IF val \in {checkbox_yestext, checkbox_notext} THEN "" ELSE "Exception"
      [] kind = "cb" -> combobox_setval_exc(w, val)
      [] OTHER -> ""

\* the native value w.setVal(val) hands to the Qt setter
setVal_native(kind, val) ==
    CASE kind = "sp" -> spinbox_native(val)
      [] kind = "xb" -> checkbox_native(val)
      [] OTHER -> val

\* Python dict item assignment d[k] = v
DictSet(d, k, v) == [x \in DOMAIN d \cup {k} |-> IF x = k THEN v ELSE d[x]]

\* self.data[var] = val made on a new copy of self.data_empty
data_set_fresh(st, var, val) ==
    [st EXCEPT !.data = DictSet(st.data_empty, var, val)]

\* self.data[var] = val: the assignment is seen through self.data_empty
\* too when the two are one object
data_set(st, var, val) ==
    [st EXCEPT !.data = DictSet(st.data, var, val),
               !.data_empty = IF st.aliased THEN DictSet(st.data, var, val) ELSE @]

\* self.data = self.data_empty, the copy left out
copy_empty_alias(st) == [st EXCEPT !.data = st.data_empty, !.aliased = TRUE]

\* self.data = self.data_empty.copy()
copy_empty(st) == [st EXCEPT !.data = st.data_empty, !.aliased = FALSE]

\* record an event of the handler; only events raised while restore_forms
\* is pushing values are kept
Note(st, e) == IF st.restoring THEN [st EXCEPT !.ev = @ \cup {e}] ELSE st

raise(st, e) == [st EXCEPT !.exc = e]

\* the handler's log of the writes into self.data and of the calls that
\* persist: <<"write", var>>, <<"save_temp", text written>>,
\* <<"update", var>>
Log(st, e, var) == [st EXCEPT !.log = Append(@, <<e, var>>)]

\* json.dumps(d, sort_keys=True): the items of d in the order of their keys,
\* a text that the set of the items determines
json_dumps(d) == {<<k, d[k]>> : k \in DOMAIN d}

\* json.load of a text written by json.dumps
json_load(text) ==
    [k \in {item[1] : item \in text} |->
        (CHOOSE item \in text : item[1] = k)[2]]

\* save_file writing only the variables that are not at their default
save_file_modified(st, path, ok) ==
    IF ~ok THEN raise(st, "IOError")
    ELSE LET d == [k \in {x \in DOMAIN st.data : st.data[x] # st.data_empty[x]}
                     |-> st.data[k]]
         IN  IF path = TmpPath
             THEN [st EXCEPT !.tmpfile = [exists |-> TRUE, text |-> json_dumps(d)]]
             ELSE [st EXCEPT !.disk = [exists |-> TRUE, text |-> json_dumps(d)]]

\* save_file(path); ok: the file can be opened for writing
save_file(st, path, ok) ==
    IF ~ok THEN raise(st, "IOError")
    ELSE IF path = TmpPath
         THEN [st EXCEPT !.tmpfile = [exists |-> TRUE, text |-> json_dumps(st.data)]]
         ELSE [st EXCEPT !.disk = [exists |-> TRUE, text |-> json_dumps(st.data)]]

\* save_temp: save_file(Config.tmpfile_path)
\* st.tmp_ok: the temp file can be opened for writing
save_temp(st) ==
    IF st.tmp_ok
    THEN Log(Note(save_file(st, TmpPath, TRUE), "save"), "save_temp",
             json_dumps(st.data))
    ELSE [save_file(st, TmpPath, FALSE)
            EXCEPT !.trace = Append(@, "save_temp_failed")]

\* the deepest nesting of values_changed the model follows, standing for
\* the recursion limit of the interpreter
RecursionLimit == 4

\* the calls of values_changed a handler has made:
\*   depth   the calls now on the stack
\*   deepest the largest depth reached
\*   cur     the nested calls made under the outermost call now running
\*   nested  the largest number of nested calls under one outermost call
\*   inner   the widgets the nested calls were made for
NoCalls == [depth |-> 0, deepest |-> 0, cur |-> 0, nested |-> 0, inner |-> {}]

Max(a, b) == IF a < b THEN b ELSE a

\* values_changed(w) is called
enter(st, w) ==
    [st EXCEPT !.calls =
        IF @.depth = 0
        THEN [@ EXCEPT !.depth = 1, !.deepest = Max(@, 1), !.cur = 0]
        ELSE [@ EXCEPT !.depth = @ + 1,
                       !.deepest = Max(@, st.calls.depth + 1),
                       !.cur = @ + 1,
                       !.nested = Max(@, st.calls.cur + 1),
                       !.inner = @ \cup {w}]]

\* the call of values_changed is left, by return or by an exception
leave(r) == [r EXCEPT !.calls.depth = @ - 1]

\* the end of a slot called by a signal: an exception escaping the slot
\* goes to sys.excepthook and not to the code that emitted the signal
SlotEnd(r) ==
    IF r.exc # ""
    THEN [r EXCEPT !.exc = "", !.hook = IF @ = "" THEN r.exc ELSE @]
    ELSE r

\* values_changed of sql_entryapp.py without the UPDATE
sql_update_skip(st, varname, newval) == st

\* cr.execute('UPDATE roms SET varname=:newval WHERE rom_id=:rom_id') and
\* conn.commit()
sql_update(st, varname, newval) ==
    Log(Note([st EXCEPT !.db.row = DictSet(@, varname, newval)], "update"),
        "update", varname)

RECURSIVE values_changed(_, _), Slot(_, _), setNative(_, _, _), setVal(_, _, _)
RECURSIVE values_changed_file(_, _), values_changed_sql(_, _)
RECURSIVE weight_normalize(_, _), autocalculate_all(_, _)

\* a Qt setter (setValue, setCheckState, setCurrentIndex, setText): the
\* change signal is emitted only when the value changes
setNative(st, w, v) ==
    IF st.wv[w] = v THEN st
    ELSE Slot([st EXCEPT !.wv[w] = v], w)

\* lambda x, w=w: self.values_changed(w), connected to the change signal
Slot(st, w) ==
    IF st.calls.depth >= RecursionLimit
    THEN SlotEnd(raise(st, "RecursionError"))
    ELSE leave(SlotEnd(values_changed(enter(st, w), w)))

spinbox_setval(st, w, val) == setNative(st, w, spinbox_native(val))

checkbox_setval(st, w, val) ==
    IF setVal_exc("xb", w, val) # "" THEN raise(st, setVal_exc("xb", w, val))
    ELSE setNative(st, w, checkbox_native(val))

combobox_setval(st, w, val) ==
    IF setVal_exc("cb", w, val) # "" THEN raise(st, setVal_exc("cb", w, val))
    ELSE setNative(st, w, val)

setVal(st, w, val) ==
    CASE widget_kind[w] = "sp" -> spinbox_setval(st, w, val)
      [] widget_kind[w] = "cb" -> combobox_setval(st, w, val)
      [] widget_kind[w] = "xb" -> checkbox_setval(st, w, val)
      [] OTHER -> setNative(st, w, val)

\* the derived widget w was given another value than old
overwritten(s, w, old) == IF s.wv[w] # old THEN Note(s, "overwrite") ELSE s

\* w.setVal(noval if val == noval or weight == noval else val/weight)
normalize_set(s1, w, val, weight) ==
    IF val # spinbox_novalue_text /\ weight # spinbox_novalue_text /\ weight.n = 0
    THEN raise(s1, "ZeroDivisionError")
    ELSE overwritten(setVal(s1, w, IF val = spinbox_novalue_text
                                      \/ weight = spinbox_novalue_text
                                   THEN spinbox_novalue_text
                                   ELSE Quot(val, weight)),
                     w, s1.wv[w])

\* val, weight = (w.getVal() for w in w._autoinputs)
weight_normalize(st, w) ==
    normalize_set(Note(st, "recompute"), w,
                  getVal(autoinputs[w][1], st.wv[autoinputs[w][1]]),
                  getVal(autoinputs[w][2], st.wv[autoinputs[w][2]]))

\* for widget in autowidgets_this: widget._autocalculate()
autocalculate_all(st, ws) ==
    IF ws = {} \/ st.exc # "" THEN st
    ELSE LET a == CHOOSE x \in ws : TRUE
         IN  autocalculate_all(weight_normalize(st, a), ws \ {a})

\* values_changed catching what save_temp raises
save_if_enabled_caught(s3) ==
    IF s3.save_to_tmp THEN [save_temp(s3) EXCEPT !.exc = ""] ELSE s3

\* if self.save_to_tmp: self.save_temp()
save_if_enabled(s3) == IF s3.save_to_tmp THEN save_temp(s3) ELSE s3

\* values_changed saving to the temp file before it updates self.data
update_and_save_early(s1, w) ==
    IF s1.exc # "" THEN s1
    ELSE IF ~s1.update_dict THEN save_if_enabled([s1 EXCEPT !.saved_to_file = FALSE])
    ELSE IF getVal_exc(w, s1.wv[w]) # "" THEN raise(s1, getVal_exc(w, s1.wv[w]))
    ELSE Note([save_if_enabled([s1 EXCEPT !.saved_to_file = FALSE])
                 EXCEPT !.data = DictSet(@, widget_to_var[w], getVal(w, s1.wv[w]))],
              "write")

\* values_changed of liikelaajuus.py after the autowidgets were updated
update_and_save(s1, w) ==
    IF s1.exc # "" THEN s1
    ELSE IF ~s1.update_dict THEN save_if_enabled([s1 EXCEPT !.saved_to_file = FALSE])
    ELSE IF getVal_exc(w, s1.wv[w]) # "" THEN raise(s1, getVal_exc(w, s1.wv[w]))
    ELSE save_if_enabled(
            Log(Note([data_set(s1, widget_to_var[w], getVal(w, s1.wv[w]))
                        EXCEPT !.saved_to_file = FALSE], "write"),
                "write", widget_to_var[w]))

\* values_changed of liikelaajuus.py
values_changed_file(st, w) ==
    update_and_save(autocalculate_all(Note(st, "notify"), autowidgets_this[w]), w)

\* values_changed of sql_entryapp.py after the autowidgets were updated
update_and_commit(s1, w) ==
    IF s1.exc # "" \/ ~s1.update_dict THEN s1
    ELSE IF getVal_exc(w, s1.wv[w]) # "" THEN raise(s1, getVal_exc(w, s1.wv[w]))
    ELSE sql_update(
            Log(Note(data_set(s1, widget_to_var[w], getVal(w, s1.wv[w])),
                     "write"),
                "write", widget_to_var[w]),
            widget_to_var[w], getVal(w, s1.wv[w]))

\* values_changed of sql_entryapp.py
values_changed_sql(st, w) ==
    update_and_commit(autocalculate_all(Note(st, "notify"), autowidgets_this[w]), w)

values_changed(st, w) ==
    IF st.variant = "sql" THEN values_changed_sql(st, w)
    ELSE values_changed_file(st, w)

\* restore_forms gave the derived widget w another value than old
pushed(s, w, old) ==
    IF w \in autowidgets /\ s.wv[w] # old THEN Note(s, "push_derived") ELSE s

\* for wname in self.input_widgets: setVal(self.data[widget_to_var[wname]])
RECURSIVE restore_loop(_, _)
restore_loop(st, order) ==
    IF order = <<>> \/ st.exc # "" THEN st
    ELSE restore_loop(pushed(setVal(st, Head(order),
                                    st.data[widget_to_var[Head(order)]]),
                             Head(order), st.wv[Head(order)]),
                      Tail(order))

\* the loop of restore_forms left: the flags are set again unless an
\* exception ended the loop
restore_end(s1) ==
    IF s1.exc # "" THEN [s1 EXCEPT !.restoring = FALSE]
    ELSE [s1 EXCEPT !.save_to_tmp = TRUE, !.update_dict = TRUE,
                    !.restoring = FALSE]

\* restore_forms without the two flag assignments before the loop
restore_forms_noguard(st, order) ==
    restore_end(restore_loop([st EXCEPT !.restoring = TRUE], order))

restore_forms(st, order) ==
    restore_end(restore_loop([st EXCEPT !.save_to_tmp = FALSE,
                                        !.update_dict = FALSE,
                                        !.restoring = TRUE], order))

-----------------------------------------------------------------------------
(* Loading *)

\* d.copy() followed by d[key] = src[key] for every key of ks
DictUpdate(d, ks, src) ==
    [x \in DOMAIN d \cup ks |-> IF x \in ks THEN src[x] ELSE d[x]]

NoDialog == [shown |-> FALSE, extra |-> {}, missing |-> {}]

\* message_dialog(''.join(li))
message_dialog(st, extra_in_new, not_in_new) ==
    [st EXCEPT !.dialog = [shown |-> TRUE, extra |-> extra_in_new,
                           missing |-> not_in_new],
               !.trace = Append(@, "report")]

\* keyerror_dialog with the last test on the missing instead of the extra keys
keyerror_dialog_missing(st, origkeys, newkeys) ==
    IF origkeys \ newkeys # {}
    THEN message_dialog(st, newkeys \ origkeys, origkeys \ newkeys)
    ELSE st

\* keyerror_dialog showing the dialog for every key mismatch
keyerror_dialog_any(st, origkeys, newkeys) ==
    message_dialog(st, newkeys \ origkeys, origkeys \ newkeys)

\* li names the extra keys and, when there are any, the keys not found
keyerror_dialog(st, origkeys, newkeys) ==
    IF newkeys \ (origkeys \cap newkeys) # {}
    THEN message_dialog(st, newkeys \ (origkeys \cap newkeys),
                        origkeys \ (origkeys \cap newkeys))
    ELSE st

\* load_file taking every loaded key instead of the common keys
load_merge_allkeys(s1, data_loaded, order) ==
    restore_forms([s1 EXCEPT !.data = DictUpdate(s1.data_empty,
                                                 DOMAIN data_loaded, data_loaded),
                             !.trace = Append(@, "mutate")], order)

\* load_file updating self.data in place instead of a copy of data_empty
load_merge_noreset(s1, data_loaded, order) ==
    restore_forms([s1 EXCEPT !.data = DictUpdate(s1.data,
                                                 DOMAIN s1.data \cap DOMAIN data_loaded,
                                                 data_loaded),
                             !.trace = Append(@, "mutate")], order)

\* for key in ks: self.data[key] = src[key]
data_update(st, ks, src) ==
    [st EXCEPT !.data = DictUpdate(st.data, ks, src),
               !.data_empty = IF st.aliased THEN DictUpdate(st.data, ks, src) ELSE @,
               !.trace = Append(@, "mutate")]

\* load_file after the key check: self.data = self.data_empty.copy(), the
\* common keys updated, restore_forms
load_merge(s1, data_loaded, order) ==
    restore_forms(data_update(copy_empty(s1),
                              DOMAIN s1.data \cap DOMAIN data_loaded,
                              data_loaded), order)

\* file: [readable, content]; an unreadable or unparsable file makes
\* open / json.load raise before anything is changed
load_file(st, file, order) ==
    IF ~file.readable THEN raise(st, "IOError")
    ELSE load_merge(IF DOMAIN st.data # DOMAIN file.content
                    THEN keyerror_dialog(st, DOMAIN st.data, DOMAIN file.content)
                    ELSE st,
                    file.content, order)

\* _read_data taking every column of the row, the NULL ones too
read_data_nulls(st, order) ==
    IF ~st.db.exists THEN raise(st, "RuntimeError")
    ELSE restore_forms(
            [st EXCEPT !.data = DictUpdate(st.data_empty, DOMAIN st.data, st.db.row),
                       !.aliased = FALSE,
                       !.trace = Append(@, "mutate")], order)

\* _read_data of sql_entryapp.py: only the non-NULL columns are taken
read_data(st, order) ==
    IF ~st.db.exists THEN raise(st, "RuntimeError")
    ELSE restore_forms(
            [st EXCEPT !.data = DictUpdate(st.data_empty,
                                           {var \in DOMAIN st.data : st.db.row[var] # Null},
                                           st.db.row),
                       !.aliased = FALSE,
                       !.trace = Append(@, "mutate")], order)

\* Config.json_io_exceptions: the persistence failures caught at the call site
json_io_exceptions == {"IOError", "UnicodeDecodeError", "EOFError"}

-----------------------------------------------------------------------------
(* The state machine *)

\* the machine state a handler starts from
M ==
    [wv |-> wv, data |-> data, data_empty |-> data_empty, aliased |-> aliased,
     update_dict |-> update_dict, save_to_tmp |-> save_to_tmp,
     saved_to_file |-> saved_to_file,
     last_saved_filepath |-> last_saved_filepath, tmpfile |-> tmpfile,
     variant |-> variant, db |-> db, disk |-> disk,
     exc |-> "", caught |-> "", hook |-> "", restoring |-> FALSE, ev |-> {},
     trace |-> <<>>, dialog |-> NoDialog, log |-> <<>>, tmp_ok |-> TRUE,
     calls |-> NoCalls, picked |-> NoPath]

NoInput == [readable |-> FALSE, content |-> <<>>]

\* the history record of a handler that ended in machine state r:
\*   op, w, file  the handler and its inputs
\*   ev, trace    what happened while it ran
\*   dialog       the key mismatch dialog it showed
\*   exc          the exception that ended load_file or restore_forms
\*   hook         the exception handed to sys.excepthook, "" if none
\*   path         the path chosen in the open dialog, NoPath if none
Hist(op, w, file, r, exc) ==
    [op |-> op, w |-> w, file |-> file, ev |-> r.ev, trace |-> r.trace,
     dialog |-> r.dialog, exc |-> exc, hook |-> r.hook, path |-> r.picked]

\* the handler returned (or an exception escaped it to sys.excepthook,
\* which reports it and quits the application)
CommitTwin(r, h, run, t) ==
    /\ wv' = r.wv
    /\ data' = r.data
    /\ update_dict' = r.update_dict
    /\ save_to_tmp' = r.save_to_tmp
    /\ saved_to_file' = r.saved_to_file
    /\ last_saved_filepath' = r.last_saved_filepath
    /\ tmpfile' = r.tmpfile
    /\ db' = r.db
    /\ disk' = r.disk
    /\ data_empty' = r.data_empty
    /\ aliased' = r.aliased
    /\ running' = run
    /\ last' = h
    /\ twin' = t
    /\ UNCHANGED <<input_order, variant, codec, reg>>

CommitRun(r, h, run) == CommitTwin(r, h, run, twin)

Commit(r, h) == CommitRun(r, h, r.hook = "")

\* read_forms on the freshly built form
read_forms(v) == [x \in Vars |->
                    LET w == CHOOSE u \in input_widgets : widget_to_var[u] = x
                    IN  getVal(w, v[w])]

\* the value the normalisation rule gives for raw value val and weight
Normalized(val, weight) ==
    IF val = spinbox_novalue_text \/ weight = spinbox_novalue_text
       \/ weight.n = 0
    THEN spinbox_novalue_text
    ELSE Quot(val, weight)

\* the rows the database may hold when the window is opened
DbRows ==
    {NoRow} \cup
    {[exists |-> TRUE,
      row |-> [x \in Vars |->
                 CASE x = widget_to_var[spAntropPaino] -> p
                   [] x = widget_to_var[spVoimaNormUn] -> u
                   [] x = widget_to_var[spVoimaNorm] -> n
                   [] x = widget_to_var[cbSivu] -> c]] :
     p \in {Null} \cup WeightValues,
     u \in {Null} \cup RawValues,
     n \in {Null, Num(1, 2)},
     c \in {Null, Str("Vasen")}}

\* no second application is run
NoTwin == [on |-> FALSE]

\* no form is on its way through init_widgets
NoReg == [phase |-> "none", form |-> {}, exc |-> "", input_widgets |-> {},
          widget_to_var |-> <<>>, autowidgets |-> {}, autoinputs |-> <<>>,
          keys |-> {}, shown |-> FALSE]

\* no value is on its way through the codec
NoCodec == [phase |-> "none", kind |-> "none", w |-> <<>>, val |-> Null,
            was |-> Null, native |-> Null, out |-> Null, exc |-> "",
            unit |-> "", with_units |-> <<>>]

\* the orders in which restore_forms may visit the input widgets
Orders ==
    {<<spVoimaNorm, spVoimaNormUn, spAntropPaino, cbSivu>>,
     <<spAntropPaino, cbSivu, spVoimaNormUn, spVoimaNorm>>}

Init ==
    /\ wv = [w \in input_widgets |-> DefaultNative(w)]
    /\ data = read_forms(wv)
    /\ data_empty = data
    /\ aliased = FALSE
    /\ save_to_tmp = TRUE
    /\ saved_to_file = TRUE
    /\ last_saved_filepath = NoPath
    /\ update_dict = TRUE
    /\ tmpfile = NoFile
    /\ \/ variant = "file" /\ db = NoRow
       \/ variant = "sql" /\ db \in DbRows
    /\ disk = NoFile
    /\ codec = NoCodec
    /\ reg = NoReg
    /\ twin = NoTwin
    /\ running = TRUE
    /\ input_order \in Orders
    /\ last = Hist("init", <<>>, NoInput, M, "")

\* the user changes the value of an enabled input widget
EditWidget(w, v) ==
    /\ running
    /\ variant = "sql" => last.op # "init"
    /\ w \notin autowidgets
    /\ v # wv[w]
    /\ \E r \in {Slot([M EXCEPT !.wv[w] = v], w)} :
          Commit(r, Hist("edit", w, NoInput, r, ""))

\* the user changes the value of an enabled input widget while the temp
\* file cannot be written
EditWidgetUnsaved(w, v) ==
    /\ running
    /\ variant = "file"
    /\ w \notin autowidgets
    /\ v # wv[w]
    /\ \E r \in {Slot([M EXCEPT !.wv[w] = v, !.tmp_ok = FALSE], w)} :
          Commit(r, Hist("edit", w, NoInput, r, ""))

\* _load_dialog remembering the path and setting saved_to_file before it
\* calls load_file
load_dialog_path_first(path, file) ==
    /\ running
    /\ variant = "file"
    /\ \E r \in {load_file([M EXCEPT !.picked = path,
                                     !.last_saved_filepath = path,
                                     !.saved_to_file = TRUE],
                           file, input_order)} :
          IF r.exc = ""
          THEN \E ok \in {[r EXCEPT !.saved_to_file = TRUE]} :
                  Commit(ok, Hist("load", <<>>, file, ok, ""))
          ELSE IF r.exc \in json_io_exceptions
               THEN \E c \in {[r EXCEPT !.exc = "",
                                        !.trace = Append(@, "cannot_open")]} :
                       Commit(c, Hist("load_failed", <<>>, file, c, r.exc))
          ELSE \E e \in {SlotEnd(r)} :
                  Commit(e, Hist("load_failed", <<>>, file, e, r.exc))

\* actionAvaa, a file chosen in the file dialog (after the confirmation
\* "load, not saved?" when there are unsaved changes)
load_dialog(path, file) ==
    /\ running
    /\ variant = "file"
    /\ \E r \in {load_file([M EXCEPT !.picked = path], file, input_order)} :
          IF r.exc = ""
          THEN \E ok \in {[r EXCEPT !.last_saved_filepath = path,
                                    !.saved_to_file = TRUE]} :
                  Commit(ok, Hist("load", <<>>, file, ok, ""))
          ELSE IF r.exc \in json_io_exceptions
               THEN \E c \in {[r EXCEPT !.exc = "",
                                        !.trace = Append(@, "cannot_open")]} :
                       Commit(c, Hist("load_failed", <<>>, file, c, r.exc))
          ELSE \E e \in {SlotEnd(r)} :
                  Commit(e, Hist("load_failed", <<>>, file, e, r.exc))

\* actionAvaa, the confirmation declined or no existing file chosen
load_dialog_cancel ==
    /\ running
    /\ variant = "file"
    /\ Commit(M, Hist("load_declined", <<>>, NoInput, M, ""))

\* vars_default with "no value" taken for the default of every variable
vars_default_novalue(d, e) == {key \in DOMAIN d : d[key] = spinbox_novalue_text}

\* vars_default
vars_default(d, e) == {key \in DOMAIN d : d[key] = e[key]}

\* n_modified
n_modified(d, e) == Cardinality({x \in DOMAIN d : d[x] # e[x]})

\* _clear_forms_dialog without the reset of self.data
clear_forms_keep(st, order) == restore_forms(st, order)

\* _clear_forms_dialog, the reply being yes:
\* self.data = self.data_empty.copy(); self.restore_forms()
clear_forms(st, order) ==
    restore_forms([copy_empty(st) EXCEPT !.trace = Append(@, "mutate")], order)

\* actionTyhjenna
clear_forms_dialog(reply) ==
    /\ running
    /\ variant = "file"
    /\ IF reply
       THEN \E r \in {clear_forms(M, input_order)} :
               IF r.exc = ""
               THEN \E ok \in {[r EXCEPT !.last_saved_filepath = NoPath,
                                         !.saved_to_file = TRUE]} :
                       Commit(ok, Hist("clear", <<>>, NoInput, ok, ""))
               ELSE \E e \in {SlotEnd(r)} :
                       Commit(e, Hist("clear_failed", <<>>, NoInput, e, r.exc))
       ELSE Commit(M, Hist("clear_declined", <<>>, NoInput, M, ""))

\* the end of EntryApp.__init__ of sql_entryapp.py: self._read_data()
open_row ==
    /\ running
    /\ variant = "sql"
    /\ last.op = "init"
    /\ \E r \in {read_data(M, input_order)} :
          IF r.exc = "" THEN Commit(r, Hist("open", <<>>, NoInput, r, ""))
          ELSE \E e \in {SlotEnd(r)} :
                  Commit(e, Hist("open_failed", <<>>, NoInput, e, r.exc))

\* actionTallennaNimella; picked: a path was chosen in the save dialog
save_json_dialog(picked, ok) ==
    /\ running
    /\ variant = "file"
    /\ IF ~picked THEN Commit(M, Hist("save_as_declined", <<>>, NoInput, M, ""))
       ELSE \E r \in {save_file(M, UserPath, ok)} :
               IF r.exc = ""
               THEN \E done \in {[r EXCEPT !.saved_to_file = TRUE,
                                            !.last_saved_filepath = UserPath]} :
                       Commit(done, Hist("save_as", <<>>, NoInput, done, ""))
               ELSE IF r.exc \in json_io_exceptions
                    THEN \E c \in {[r EXCEPT !.exc = "",
                                             !.trace = Append(@, "cannot_save")]} :
                            Commit(c, Hist("save_as_failed", <<>>, NoInput, c, r.exc))
               ELSE \E e \in {SlotEnd(r)} :
                       Commit(e, Hist("save_as_failed", <<>>, NoInput, e, r.exc))

\* actionTallenna
save_current_file(ok) ==
    /\ running
    /\ variant = "file"
    /\ IF last_saved_filepath = NoPath
       THEN Commit(M, Hist("save_skipped", <<>>, NoInput, M, ""))
       ELSE \E r \in {save_file(M, last_saved_filepath, ok)} :
               IF r.exc = ""
               THEN \E done \in {[r EXCEPT !.saved_to_file = TRUE]} :
                       Commit(done, Hist("save", <<>>, NoInput, done, ""))
               ELSE \E e \in {SlotEnd(r)} :
                       Commit(e, Hist("save_failed", <<>>, NoInput, e, r.exc))

\* the file at UserPath as open / json.load find it
DiskInput(readable) ==
    [readable |-> readable,
     content |-> IF readable THEN json_load(disk.text) ELSE <<>>]

\* actionAvaa with the file at UserPath chosen
load_dialog_disk(readable) ==
    /\ disk.exists
    /\ load_dialog(UserPath, DiskInput(readable))

\* rm_temp that leaves the file where it is
rm_temp_keep(st) == st

\* rm_temp
rm_temp(st) == IF st.tmpfile.exists THEN [st EXCEPT !.tmpfile = NoFile] ELSE st

\* closeEvent; reply: the answer to the confirmation dialog
closeEvent(reply) ==
    /\ running
    /\ variant = "file"
    /\ IF reply
       THEN \E r \in {rm_temp(M)} :
               CommitRun(r, Hist("close", <<>>, NoInput, r, ""), FALSE)
       ELSE Commit(M, Hist("close_declined", <<>>, NoInput, M, ""))

\* a persistence exception caught at the call site, with its message
caught(r, msg) ==
    IF r.exc \in json_io_exceptions
    THEN [r EXCEPT !.exc = "", !.caught = r.exc, !.trace = Append(@, msg)]
    ELSE r

\* load_temp
load_temp(st, order, readable) ==
    caught(load_file(st, [readable |-> readable,
                          content |-> IF readable THEN json_load(st.tmpfile.text)
                                      ELSE <<>>],
                     order),
           "cannot_open_tmp")

\* the end of __init__: the temp file, if there is one, is loaded
init_temp(s0, order, readable) ==
    IF s0.tmpfile.exists
    THEN load_temp([s0 EXCEPT !.trace = Append(@, "temp_found")], order, readable)
    ELSE s0

\* __init__ calling _autocalculate of the autowidgets on the freshly built
\* form before it reads the form
init_app_recompute(st, order, readable) ==
    init_temp([autocalculate_all(
                  [st EXCEPT !.wv = [w \in input_widgets |-> DefaultNative(w)]],
                  autowidgets)
               EXCEPT
                 !.data = read_forms([w \in input_widgets |-> DefaultNative(w)]),
                 !.data_empty = read_forms([w \in input_widgets |-> DefaultNative(w)]),
                 !.aliased = FALSE,
                 !.save_to_tmp = TRUE,
                 !.saved_to_file = TRUE,
                 !.last_saved_filepath = NoPath,
                 !.update_dict = TRUE,
                 !.trace = <<"recompute", "read_forms", "data_empty">>],
              order, readable)

\* EntryApp.__init__: the form is built, read into self.data and copied
\* into self.data_empty, the flags are set
init_app(st, order, readable) ==
    init_temp([st EXCEPT
                 !.wv = [w \in input_widgets |-> DefaultNative(w)],
                 !.data = read_forms([w \in input_widgets |-> DefaultNative(w)]),
                 !.data_empty = read_forms([w \in input_widgets |-> DefaultNative(w)]),
                 !.aliased = FALSE,
                 !.save_to_tmp = TRUE,
                 !.saved_to_file = TRUE,
                 !.last_saved_filepath = NoPath,
                 !.update_dict = TRUE,
                 !.trace = <<"read_forms", "data_empty">>],
              order, readable)

\* the application is started again after it was closed or had quit;
\* readable: the temp file, if any, can be read and parsed
startup(readable) ==
    /\ ~running
    /\ variant = "file"
    /\ \E r \in {init_app(M, input_order, readable)} :
          IF r.exc = ""
          THEN Commit(r, Hist("startup", <<>>, NoInput, r, r.caught))
          ELSE \E e \in {SlotEnd(r)} :
                  Commit(e, Hist("startup_failed", <<>>, NoInput, e, r.exc))

-----------------------------------------------------------------------------
(* The files a user may open *)

MaxDeviations == 1

ghost == <<"g", "h", "o", "s", "t">>

vPaino == widget_to_var[spAntropPaino]
vNormUn == widget_to_var[spVoimaNormUn]
vNorm == widget_to_var[spVoimaNorm]
vSivu == widget_to_var[cbSivu]

\* records as the application writes them: every key, every value valid,
\* the normalised value consistent
BaseRecords ==
    {[x \in Vars |->
        CASE x = vPaino -> p
          [] x = vNormUn -> u
          [] x = vNorm -> Normalized(u, p)
          [] x = vSivu -> c] :
     p \in {spinbox_novalue_text} \cup WeightValues,
     u \in {spinbox_novalue_text} \cup RawValues,
     c \in Options(cbSivu)}

Deviations ==
    [kind : {"absent"}, key : Vars]
    \cup {[kind |-> "extra", key |-> ghost],
          [kind |-> "invalid", key |-> vSivu],
          [kind |-> "stale", key |-> vNorm]}

Deviate(base, D) ==
    LET absent == {d.key : d \in {e \in D : e.kind = "absent"}}
        extra == {d.key : d \in {e \in D : e.kind = "extra"}}
        kindOf(k) == {d.kind : d \in {e \in D : e.key = k}}
    IN  [k \in (DOMAIN base \ absent) \cup extra |->
            IF k \in extra THEN Str("boo")
            ELSE IF "invalid" \in kindOf(k) THEN Str("Keski")
            ELSE IF "stale" \in kindOf(k)
                 THEN (IF base[k] = spinbox_novalue_text
                       THEN Num(1, 2) ELSE spinbox_novalue_text)
            ELSE base[k]]

IncomingFiles ==
    {NoInput} \cup
    {[readable |-> TRUE, content |-> Deviate(b, D)] :
        b \in BaseRecords,
        D \in {E \in SUBSET Deviations : Cardinality(E) <= MaxDeviations}}

\* the files at the second path a user may open: none that can be read,
\* or a record saved by the application
OtherFiles ==
    {NoInput,
     [readable |-> TRUE,
      content |-> [x \in Vars |->
                     CASE x = vPaino -> Num(80, 1)
                       [] x = vNormUn -> Num(40, 1)
                       [] x = vNorm -> Num(1, 2)
                       [] x = vSivu -> Str("Vasen")]]}

Next ==
    \/ \E w \in input_widgets : \E v \in UserValues(w) : EditWidget(w, v)
    \/ \E file \in IncomingFiles : load_dialog(UserPath, file)
    \/ \E file \in OtherFiles : load_dialog(OtherPath, file)
    \/ load_dialog_cancel
    \/ \E reply \in BOOLEAN : clear_forms_dialog(reply)
    \/ open_row

Spec == Init /\ [][Next]_vars

-----------------------------------------------------------------------------
(* The application with the user's data file and the temp file: edits,
   saves, loads of the saved file, clear, close and restart *)

\* the data file the user may have before the application is first started
DiskFiles ==
    {NoFile,
     [exists |-> TRUE,
      text |-> json_dumps([x \in Vars |->
                 CASE x = vPaino -> Num(80, 1)
                   [] x = vNormUn -> Num(40, 1)
                   [] x = vNorm -> Num(1, 2)
                   [] x = vSivu -> Str("Vasen")])]}

InitFiles ==
    /\ wv = [w \in input_widgets |-> DefaultNative(w)]
    /\ data = read_forms(wv)
    /\ data_empty = data
    /\ aliased = FALSE
    /\ save_to_tmp = TRUE
    /\ saved_to_file = TRUE
    /\ last_saved_filepath = NoPath
    /\ update_dict = TRUE
    /\ tmpfile = NoFile
    /\ variant = "file"
    /\ db = NoRow
    /\ disk \in DiskFiles
    /\ codec = NoCodec
    /\ reg = NoReg
    /\ twin = NoTwin
    /\ running = TRUE
    /\ input_order \in Orders
    /\ last = Hist("init", <<>>, NoInput, M, "")

NextFiles ==
    \/ \E w \in input_widgets : \E v \in UserValues(w) : EditWidget(w, v)
    \/ \E picked, ok \in BOOLEAN : save_json_dialog(picked, ok)
    \/ \E ok \in BOOLEAN : save_current_file(ok)
    \/ \E readable \in BOOLEAN : load_dialog_disk(readable)
    \/ \E reply \in BOOLEAN : clear_forms_dialog(reply)
    \/ \E reply \in BOOLEAN : closeEvent(reply)
    \/ \E readable \in BOOLEAN : startup(readable)
    \/ \E w \in input_widgets : \E v \in UserValues(w) : EditWidgetUnsaved(w, v)

SpecFiles == InitFiles /\ [][NextFiles]_vars

-----------------------------------------------------------------------------
(* The value codec on its own: a value is set into a widget of every kind
   with w.setVal and read back with w.getVal *)

MaxPad == 2
MaxNum == 3

lnTiedotHetu == <<"l", "n", "T", "i", "e", "d", "o", "t", "H", "e", "t", "u">>
xbApu == <<"x", "b", "A", "p", "u">>
cmtApu == <<"c", "m", "t", "A", "p", "u">>

csbKulma == <<"c", "s", "b", "K", "u", "l", "m", "a">>

codec_widgets == {spVoimaNormUn, cbSivu, lnTiedotHetu, xbApu, cmtApu, csbKulma}

\* w.suffix() / w.getSuffix(): the unit set for the widget in the .ui file
Suffix(w) == IF WidgetKind(w) = "csb" THEN " deg" ELSE " kg"

\* isint(x): int(x) raises no ValueError; it does for a text that is not
\* the digits of an integer
isint(v) == v.tag = "num" \/ (v.tag = "str" /\ v.s = "7")

RECURSIVE Blanks(_)
Blanks(k) == IF k = 0 THEN "" ELSE " " \o Blanks(k - 1)

\* '%s' % v: the text of a record value (a number that is no integer is
\* written as its fraction)
Fmt(v) ==
    IF v.tag = "num"
    THEN IF v.d = 1 THEN ToString(v.n) ELSE ToString(v.n) \o "/" \o ToString(v.d)
    ELSE Blanks(v.lead) \o v.s \o Blanks(v.trail)

\* w.unit() giving the suffix whatever the value
unit_always(kind, w, v) == IF kind \in {"sp", "csb"} THEN Suffix(w) ELSE ""

\* w.unit() of a widget bound as kind that holds native value v
unit(kind, w, v) ==
    IF kind \in {"sp", "csb"}
    THEN IF isint(getValKind(kind, w, v)) THEN Suffix(w) ELSE ""
    ELSE ""

\* data_with_units, d being self.data and u self.units
data_with_units(d, u) == [key \in DOMAIN d |-> Fmt(d[key]) \o u[key]]

\* w.getVal() of the widget in codec record c, then the unit and the
\* record with units of the one variable
decoded(c, phase) ==
    IF getValKind_exc(c.kind, c.native) # ""
    THEN [c EXCEPT !.phase = phase, !.exc = getValKind_exc(c.kind, c.native),
                   !.out = Null]
    ELSE [c EXCEPT
            !.phase = phase,
            !.out = getValKind(c.kind, c.w, c.native),
            !.unit = unit(c.kind, c.w, c.native),
            !.with_units =
                data_with_units(var_of(c.w) :> getValKind(c.kind, c.w, c.native),
                                var_of(c.w) :> unit(c.kind, c.w, c.native))]

TextValues ==
    {Str("")} \cup
    {Text(l, t, r) : l \in 0..MaxPad, t \in {"a", "a b", "7"}, r \in 0..MaxPad}

\* the native values a widget bound as kind may hold before setVal or
\* getVal is called; 1 is Qt.PartiallyChecked
CodecNatives(kind) ==
    CASE kind = "sp" -> {Num(SpinMin, 1), Num(1, 1)}
      [] kind = "xb" -> {Num(0, 1), Num(1, 1), Num(2, 1)}
      [] kind = "cb" -> Options(cbSivu)
      [] kind = "csb" -> {spinbox_novalue_text, Num(1, 1)}
      [] OTHER -> {Str("")}

\* the record values tried on a widget bound as kind
CodecValues(kind) ==
    CASE kind = "sp" ->
            {spinbox_novalue_text, Num(1, 2)}
            \cup {Num(n, 1) : n \in SpinMin..MaxNum}
      [] kind = "xb" -> {checkbox_yestext, checkbox_notext, spinbox_novalue_text}
      [] kind = "cb" -> Options(cbSivu) \cup {Str("Keski")}
      [] kind = "csb" -> {spinbox_novalue_text} \cup {Num(n, 1) : n \in 0..MaxNum}
      [] OTHER -> TextValues

InitCodec ==
    /\ wv = [w \in input_widgets |-> DefaultNative(w)]
    /\ data = read_forms(wv)
    /\ data_empty = data
    /\ aliased = FALSE
    /\ save_to_tmp = TRUE
    /\ saved_to_file = TRUE
    /\ last_saved_filepath = NoPath
    /\ update_dict = TRUE
    /\ tmpfile = NoFile
    /\ variant = "file"
    /\ db = NoRow
    /\ disk = NoFile
    /\ reg = NoReg
    /\ twin = NoTwin
    /\ running = TRUE
    /\ input_order \in Orders
    /\ last = Hist("init", <<>>, NoInput, M, "")
    /\ \E w \in codec_widgets : \E val \in CodecValues(WidgetKind(w)) :
       \E n \in CodecNatives(WidgetKind(w)) :
          codec = [NoCodec EXCEPT !.phase = "in", !.kind = WidgetKind(w),
                                  !.w = w, !.val = val, !.was = n, !.native = n]

\* w.setVal(val)
codec_setVal ==
    /\ codec.phase = "in"
    /\ codec' = [codec EXCEPT
                    !.phase = "set",
                    !.exc = setVal_exc(codec.kind, codec.w, codec.val),
                    !.native = IF setVal_exc(codec.kind, codec.w, codec.val) = ""
                               THEN setVal_native(codec.kind, codec.val)
                               ELSE @]
    /\ UNCHANGED <<wv, data, data_empty, aliased, update_dict, save_to_tmp, saved_to_file,
                   last_saved_filepath, tmpfile, variant, db, disk, reg, twin, running,
                   input_order, last>>

\* w.getVal()
codec_getVal ==
    /\ codec.phase = "set"
    /\ codec.exc = ""
    /\ codec' = decoded(codec, "got")
    /\ UNCHANGED <<wv, data, data_empty, aliased, update_dict, save_to_tmp, saved_to_file,
                   last_saved_filepath, tmpfile, variant, db, disk, reg, twin, running,
                   input_order, last>>

\* w.getVal() of the widget as it is, no setVal before
codec_read ==
    /\ codec.phase = "in"
    /\ codec' = decoded(codec, "read")
    /\ UNCHANGED <<wv, data, data_empty, aliased, update_dict, save_to_tmp,
                   saved_to_file, last_saved_filepath, tmpfile, variant, db, disk,
                   reg, twin, running, input_order, last>>

NextCodec == codec_setVal \/ codec_getVal \/ codec_read

SpecCodec == InitCodec /\ [][NextCodec]_vars

-----------------------------------------------------------------------------
(* The registry on its own: init_widgets and read_forms run on a form made
   of any of the widget names below, the weight spinbox always there *)

lblNorm == <<"l", "b", "l", "N", "o", "r", "m">>
spOnly == <<"s", "p">>
csOnly == <<"c", "s">>

RegPool ==
    {spVoimaNormUn, spVoimaNorm, cbSivu, rdonly_ssn, lnTiedotHetu, xbApu,
     cmtApu, csbKulma, lblNorm, spOnly, csOnly}

\* the widgets the binding loop puts into self.input_widgets
bound_widgets(form) == {w \in form : WidgetKind(w) # "none"}

\* init_widgets never missing an unnormalised widget
init_widgets_exc_none(form) == ""

\* the exception init_widgets raises on the form, "" if none:
\* self.__dict__[wname_unnorm] of a name the form does not have
init_widgets_exc(form) ==
    IF \E w \in form : is_autowidget(w) /\ wname_unnorm(w) \notin form
    THEN "KeyError"
    ELSE ""

InitRegistry ==
    /\ wv = [w \in input_widgets |-> DefaultNative(w)]
    /\ data = read_forms(wv)
    /\ data_empty = data
    /\ aliased = FALSE
    /\ save_to_tmp = TRUE
    /\ saved_to_file = TRUE
    /\ last_saved_filepath = NoPath
    /\ update_dict = TRUE
    /\ tmpfile = NoFile
    /\ variant = "file"
    /\ db = NoRow
    /\ disk = NoFile
    /\ codec = NoCodec
    /\ twin = NoTwin
    /\ running = TRUE
    /\ input_order \in Orders
    /\ last = Hist("init", <<>>, NoInput, M, "")
    /\ \E f \in SUBSET RegPool :
          reg = [NoReg EXCEPT !.phase = "form", !.form = f \cup {weight_widget}]

\* self.init_widgets() called by __init__
reg_init_widgets ==
    /\ reg.phase = "form"
    /\ reg' = IF init_widgets_exc(reg.form) # ""
              THEN [reg EXCEPT !.phase = "failed",
                               !.exc = init_widgets_exc(reg.form)]
              ELSE [reg EXCEPT
                      !.phase = "built",
                      !.autowidgets = {w \in reg.form : is_autowidget(w)},
                      !.autoinputs = [w \in {a \in reg.form : is_autowidget(a)} |->
                                        <<wname_unnorm(w), weight_widget>>],
                      !.input_widgets = bound_widgets(reg.form),
                      !.widget_to_var = [w \in bound_widgets(reg.form) |-> var_of(w)]]
    /\ UNCHANGED <<wv, data, data_empty, aliased, update_dict, save_to_tmp, saved_to_file,
                   last_saved_filepath, tmpfile, variant, db, disk, codec, twin, running,
                   input_order, last>>

\* self.data = {}, self.read_forms() and, back in main, eapp.show()
reg_read_forms ==
    /\ reg.phase = "built"
    /\ reg' = [reg EXCEPT
                 !.phase = "ready",
                 !.keys = {reg.widget_to_var[w] : w \in reg.input_widgets},
                 !.shown = TRUE]
    /\ UNCHANGED <<wv, data, data_empty, aliased, update_dict, save_to_tmp, saved_to_file,
                   last_saved_filepath, tmpfile, variant, db, disk, codec, twin, running,
                   input_order, last>>

NextRegistry == reg_init_widgets \/ reg_read_forms

SpecRegistry == InitRegistry /\ [][NextRegistry]_vars

-----------------------------------------------------------------------------
(* The two variants side by side: the file-backed application (the state
   variables) and the database-backed one (twin) are given the same record
   and then the same user edits *)

\* the machine state of a freshly constructed application of variant v
\* opened on database row dbrow
FreshM(v, dbrow) ==
    [wv |-> [w \in input_widgets |-> DefaultNative(w)],
     data |-> read_forms([w \in input_widgets |-> DefaultNative(w)]),
     data_empty |-> read_forms([w \in input_widgets |-> DefaultNative(w)]),
     aliased |-> FALSE,
     update_dict |-> TRUE, save_to_tmp |-> TRUE, saved_to_file |-> TRUE,
     last_saved_filepath |-> NoPath, tmpfile |-> NoFile,
     variant |-> v, db |-> dbrow, disk |-> NoFile,
     exc |-> "", caught |-> "", hook |-> "", restoring |-> FALSE, ev |-> {},
     trace |-> <<>>, dialog |-> NoDialog, log |-> <<>>, tmp_ok |-> TRUE,
     calls |-> NoCalls, picked |-> NoPath]

\* the records both applications start from: saved by the application,
\* the weight not zero
TwinRecords == {r \in BaseRecords : r[vPaino] # Num(0, 1)}

\* the file-backed application after it loaded record r from UserPath
FileLoaded(r, order) ==
    [load_file(FreshM("file", NoRow), [readable |-> TRUE, content |-> r], order)
        EXCEPT !.last_saved_filepath = UserPath,
               !.saved_to_file = TRUE,
               !.disk = [exists |-> TRUE, text |-> json_dumps(r)]]

\* the database-backed application after __init__ read row r
RowRead(r, order) ==
    read_data(FreshM("sql", [exists |-> TRUE, row |-> r]), order)

\* what is kept of the database-backed application between two handlers
TwinOf(q, flog, fcalls) ==
    [on |-> TRUE, wv |-> q.wv, data |-> q.data, data_empty |-> q.data_empty,
     update_dict |-> q.update_dict, db |-> q.db, running |-> q.hook = "",
     flog |-> flog, slog |-> q.log, fcalls |-> fcalls, scalls |-> q.calls]

\* the machine state a handler of the database-backed application starts from
TwinM ==
    [FreshM("sql", twin.db) EXCEPT !.wv = twin.wv, !.data = twin.data,
                                   !.data_empty = twin.data_empty,
                                   !.update_dict = twin.update_dict]

InitTwin ==
    /\ input_order \in Orders
    /\ \E r \in TwinRecords :
          /\ \E f \in {FileLoaded(r, input_order)} :
                /\ wv = f.wv
                /\ data = f.data
                /\ data_empty = f.data_empty
                /\ aliased = f.aliased
                /\ update_dict = f.update_dict
                /\ save_to_tmp = f.save_to_tmp
                /\ saved_to_file = f.saved_to_file
                /\ last_saved_filepath = f.last_saved_filepath
                /\ tmpfile = f.tmpfile
                /\ disk = f.disk
                /\ running = (f.hook = "" /\ f.exc = "")
                /\ last = Hist("load", <<>>, [readable |-> TRUE, content |-> r], f, "")
          /\ twin = TwinOf(RowRead(r, input_order), <<>>,
                           FileLoaded(r, input_order).calls)
    /\ variant = "file"
    /\ db = NoRow
    /\ codec = NoCodec
    /\ reg = NoReg

\* the user gives widget w the value v in both applications
EditBoth(w, v) ==
    /\ running
    /\ twin.on /\ twin.running
    /\ w \notin autowidgets
    /\ v # wv[w]
    /\ \E r \in {Slot([M EXCEPT !.wv[w] = v], w)} :
       \E q \in {setNative(TwinM, w, v)} :
          CommitTwin(r, Hist("edit", w, NoInput, r, ""), r.hook = "",
                     TwinOf(q, r.log, r.calls))

NextTwin == \E w \in input_widgets : \E v \in UserValues(w) : EditBoth(w, v)

SpecTwin == InitTwin /\ [][NextTwin]_vars

-----------------------------------------------------------------------------
(* Properties *)

LoadOps == {"load", "load_failed"}

\* the keys of the loaded file, when the last handler read one
IncomingKeys == DOMAIN last.file.content

rawOf(d) == autoinputs[d][1]

\* C1: in every state the key set of self.data is the set of variable names
\* of the registry, which is the key set of self.data_empty.
C1_KeySet == DOMAIN data = Vars /\ DOMAIN data_empty = Vars

\* a load of a record with an unknown or a missing key has completed
C1_Witness ==
    /\ last.op = "load"
    /\ IncomingKeys # Vars

\* C2: after load_file has completed, every key both expected and incoming
\* holds the incoming value, every key only expected holds its default, and
\* no key that is only incoming is a key of self.data.
C2_LoadMerge ==
    last.op = "load" =>
        /\ \A k \in Vars \cap IncomingKeys : data[k] = last.file.content[k]
        /\ \A k \in Vars \ IncomingKeys : data[k] = data_empty[k]
        /\ \A k \in IncomingKeys \ Vars : k \notin DOMAIN data

\* a load of a record that lacks a key and has another one has completed,
\* and pushing the merged record changed the value of a control
C2_Witness ==
    /\ last.op = "load"
    /\ Vars \ IncomingKeys # {}
    /\ Vars \cap IncomingKeys # {}
    /\ "notify" \in last.ev

\* the normalisation rule on the controls: derived control d shows "no
\* value" when its raw control or the weight control does, and raw / weight
\* otherwise
RuleOnControls(d) ==
    LET val == getVal(rawOf(d), wv[rawOf(d)])
        weight == getVal(weight_widget, wv[weight_widget])
        noval == spinbox_novalue_text
    IN  IF val = noval \/ weight = noval
        THEN /\ getVal(d, wv[d]) = noval
             /\ data[widget_to_var[d]] = noval
        ELSE weight.n # 0 =>
             /\ getVal(d, wv[d]) = Quot(val, weight)
             /\ data[widget_to_var[d]] = Quot(val, weight)

\* C3: after a user edit of the weight control or of a raw control, every
\* derived control depending on it, and its entry in self.data, holds "no
\* value" if raw or weight is "no value" and raw / weight otherwise.
C3_EditNormalizes ==
    (last.op = "edit" /\ last.hook = "") =>
        \A d \in autowidgets_this[last.w] : RuleOnControls(d)

\* C4: with the weight exactly zero and the raw value a number, recomputing
\* the derived control sets it to "no value" and raises nothing: no user
\* edit ends in a division by zero.
C4_ZeroWeight ==
    last.op = "edit" =>
        /\ last.hook # "ZeroDivisionError"
        /\ \A d \in autowidgets_this[last.w] :
              (/\ getVal(weight_widget, wv[weight_widget]) = Num(0, 1)
               /\ getVal(rawOf(d), wv[rawOf(d)]) # spinbox_novalue_text)
              => getVal(d, wv[d]) = spinbox_novalue_text

\* C5: in every quiescent state of the running application the record
\* mirrors the controls: decoding the value of a control gives the record's
\* value of its variable.
C5_Mirror ==
    running => \A w \in input_widgets : getVal(w, wv[w]) = data[widget_to_var[w]]

\* C6: a load that fails leaves self.data as it was before the load began.
C6_FailedLoadUntouched ==
    [][last'.op = "load_failed" => data' = data]_vars

\* C7: while restore_forms pushes values into the controls, the change
\* notifications raised by the pushes neither write into self.data nor
\* save to the temp file nor UPDATE the database row.
C7_NoWriteNoSave ==
    /\ "write" \notin last.ev
    /\ "save" \notin last.ev
    /\ "update" \notin last.ev

\* a load, a clear or the opening of the database row has pushed a value that changed a control, which
\* raised a change notification
C7_Witness ==
    /\ last.op \in {"load", "clear", "open"}
    /\ "notify" \in last.ev

\* C8: a change notification raised while restore_forms pushes values does
\* not recompute a derived control, and no derived control is overwritten.
C8_NoRecompute ==
    /\ "recompute" \notin last.ev
    /\ "overwrite" \notin last.ev

\* the unknown and the missing keys of the file the last handler read
ExtraKeys == IncomingKeys \ Vars
MissingKeys == Vars \ IncomingKeys

\* every incoming value of an expected key can be pushed into its control
Pushable ==
    \A w \in input_widgets :
        (widget_to_var[w] \in IncomingKeys /\ widget_kind[w] = "cb")
        => last.file.content[widget_to_var[w]] \in Options(w)

\* C9: when the loaded record has a key the registry does not expect, the
\* key mismatch dialog naming every such key is shown, before self.data is
\* changed, and the load still completes.
C9_ExtraKeysReported ==
    (last.op \in LoadOps /\ last.file.readable /\ ExtraKeys # {}) =>
        /\ last.dialog.shown
        /\ last.dialog.extra = ExtraKeys
        /\ Len(last.trace) >= 2
        /\ last.trace[1] = "report"
        /\ last.trace[2] = "mutate"
        /\ Pushable => (last.op = "load" /\ last.exc = "" /\ DOMAIN data = Vars)

\* a record with the unknown key "ghost" has been loaded
C9_Witness ==
    /\ last.op = "load"
    /\ ghost \in ExtraKeys
    /\ ghost \in last.dialog.extra
    /\ ghost \notin DOMAIN data

ValidFor(kind, w, val) ==
    CASE kind = "sp" -> val = spinbox_novalue_text
                        \/ (val.tag = "num" /\ val # Num(SpinMin, 1))
      [] kind = "xb" -> val \in {checkbox_yestext, checkbox_notext}
      [] kind = "cb" -> val \in Options(w)
      [] OTHER -> val = strip(val)

\* C11: for a widget of every kind and every value valid for it, getVal
\* after setVal gives the value back; a spinbox takes "no value" as its
\* minimum and gives it back as "no value"; a checkbox takes the yes / no
\* text as checked / unchecked; a text widget takes the text verbatim and
\* gives it back stripped.
C11_RoundTrip ==
    codec.phase = "got" =>
        /\ ValidFor(codec.kind, codec.w, codec.val) => codec.out = codec.val
        /\ (codec.kind = "sp" /\ codec.val = spinbox_novalue_text)
              => codec.native = Num(SpinMin, 1)
        /\ (codec.kind = "sp" /\ codec.val # spinbox_novalue_text)
              => codec.native = codec.val
        /\ (codec.kind = "xb" /\ codec.val = checkbox_yestext)
              => codec.native = Num(2, 1)
        /\ (codec.kind = "xb" /\ codec.val = checkbox_notext)
              => codec.native = Num(0, 1)
        /\ codec.kind \in {"ln", "cmt"}
              => (codec.native = codec.val /\ codec.out = strip(codec.val))

\* a padded text was set into a line edit and read back stripped
C11_Witness ==
    /\ codec.phase = "got"
    /\ codec.kind = "ln"
    /\ codec.val.lead > 0
    /\ codec.out # codec.val
    /\ codec.out = Str(codec.val.s)

\* C12: a record saved to a file and loaded from it again is reproduced
\* exactly: after a save the file parses to self.data, and after a load of
\* a file with the expected keys self.data is what the file parses to and
\* saving it again would write the same file.
C12_SaveLoad ==
    /\ last.op \in {"save", "save_as"} =>
          (disk.exists /\ json_load(disk.text) = data)
    /\ (last.op = "load" /\ IncomingKeys = Vars) =>
          /\ data = json_load(disk.text)
          /\ json_dumps(data) = disk.text

\* the saved file has been loaded over a form that showed other values
C12_Witness ==
    /\ last.op = "load"
    /\ IncomingKeys = Vars
    /\ "notify" \in last.ev
    /\ data # data_empty

\* the record a load of the empty record is given
EmptyFile == [readable |-> TRUE, content |-> data_empty]

\* handlers a and b end with the same record and the same widget values,
\* every variable at its default
SameDefaults(a, b) ==
    /\ a.data = b.data
    /\ a.wv = b.wv
    /\ vars_default(a.data, a.data_empty) = Vars
    /\ vars_default(b.data, b.data_empty) = Vars

\* C13: from every state of the running application a confirmed clear and
\* a load of the empty record end with every variable at its default, with
\* the same record and the same widget values.
C13_ClearIsLoadEmpty ==
    /\ (running /\ variant = "file") =>
          SameDefaults(clear_forms(M, input_order),
                       load_file(M, EmptyFile, input_order))
    /\ last.op = "clear" => vars_default(data, data_empty) = Vars

\* a clear has reset a form that showed other values
C13_Witness ==
    /\ last.op = "clear"
    /\ "notify" \in last.ev
    /\ vars_default(data, data_empty) = Vars

\* C14: vars_default is the set of the variables whose value equals the
\* default, it is the complement of the modified variables, and n_modified
\* plus its size is the number of variables.
C14_DefaultedKeys ==
    /\ vars_default(data, data_empty) = {k \in Vars : data[k] = data_empty[k]}
    /\ vars_default(data, data_empty)
          = Vars \ {k \in DOMAIN data : data[k] # data_empty[k]}
    /\ n_modified(data, data_empty)
          + Cardinality(vars_default(data, data_empty)) = Cardinality(Vars)

\* some variables are modified and one that is not "no value" is at its
\* default
C14_Witness ==
    /\ n_modified(data, data_empty) > 0
    /\ \E k \in vars_default(data, data_empty) : data[k] # spinbox_novalue_text

\* C15: every user edit leaves saved_to_file false, and within one run of
\* the application saved_to_file stays false until a save to file, a load
\* through the load dialog or a confirmed clear succeeds.
C15_EditDirties ==
    [][/\ last'.op = "edit" => ~saved_to_file'
       /\ (~saved_to_file /\ saved_to_file')
             => last'.op \in {"save", "save_as", "load", "clear", "startup",
                              "startup_failed"}]_vars

\* C16: when the handler of a user edit returns normally with save_to_tmp
\* set, the temp file holds the serialisation of self.data as it then is,
\* the derived values recomputed by the edit included.
C16_TempHoldsRecord ==
    (variant = "file" /\ last.op = "edit" /\ last.hook = "" /\ save_to_tmp) =>
        /\ tmpfile.exists
        /\ tmpfile.text = json_dumps(data)

\* an edit of the raw value has recomputed the derived value, and the temp
\* file holds both
C16_Witness ==
    /\ last.op = "edit"
    /\ last.w = spVoimaNormUn
    /\ last.hook = ""
    /\ data[vNorm] = Num(1, 2)
    /\ <<vNorm, Num(1, 2)>> \in tmpfile.text
    /\ <<vNormUn, Num(40, 1)>> \in tmpfile.text

\* C17: a persistence failure (IOError) of a load or a save the user
\* started, or of the recovery of the temp file at startup, is caught where
\* the operation was started: nothing reaches sys.excepthook, the
\* application keeps running, and self.data is left as it was (at startup:
\* as the empty form gave it).
C17_FailureCaught ==
    [][last'.exc = "IOError" =>
          /\ last'.hook = ""
          /\ running'
          /\ data' = IF last'.op = "startup" THEN data_empty' ELSE data]_vars

\* C18: the temp file is removed when the close is confirmed, untouched when
\* the close is declined, left in place when the application quits through
\* the fatal error handler, and a temp file found at startup is loaded as
\* the record only after data_empty was copied from the empty form.
C18_TempLifecycle ==
    [][/\ last'.op = "close" => (~tmpfile'.exists /\ ~running')
       /\ last'.op = "close_declined" => (tmpfile' = tmpfile /\ running')
       /\ (running /\ ~running' /\ last'.op # "close") => tmpfile' = tmpfile
       /\ (last'.op \in {"startup", "startup_failed"} /\ tmpfile.exists) =>
             /\ \E i, j \in DOMAIN last'.trace :
                   /\ i < j
                   /\ last'.trace[i] = "data_empty"
                   /\ last'.trace[j] = "temp_found"
             /\ data_empty' = read_forms([w \in input_widgets |-> DefaultNative(w)])
             /\ (last'.op = "startup" /\ last'.exc = "") =>
                   \A kv \in tmpfile.text : data'[kv[1]] = kv[2]]_vars

\* the application was started after a fatal error and has recovered a
\* record that differs from the empty one from the temp file
C18_Witness ==
    /\ last.op = "startup" /\ last.exc = ""
    /\ \E j \in DOMAIN last.trace : last.trace[j] = "temp_found"
    /\ tmpfile.exists
    /\ running
    /\ data # data_empty
    /\ \A kv \in tmpfile.text : data[kv[1]] = kv[2]

\* C19: no derived control is given a value other than by its recompute:
\* restore_forms, pushing the record into the controls after a load or a
\* clear, leaves the derived controls as they are.
C19_DerivedNotPushed == "push_derived" \notin last.ev

\* the steps __init__ took before it copied self.data into self.data_empty
BeforeCapture ==
    {last.trace[i] : i \in {j \in DOMAIN last.trace :
                               \E k \in DOMAIN last.trace :
                                  j < k /\ last.trace[k] = "data_empty"}}

PrefixTable ==
    {<<<<"c", "s", "b">>, 3>>, <<<<"c", "m", "t">>, 0>>, <<<<"s", "p">>, 2>>,
     <<<<"l", "n">>, 2>>, <<<<"c", "b">>, 2>>, <<<<"x", "b">>, 2>>}

HasPrefix(w, p) == Len(w) >= Len(p) /\ SubSeq(w, 1, Len(p)) = p

\* C21: init_widgets binds a widget iff its name starts with csb, cmt, sp,
\* ln, cb or xb; the variable name is the name without its first 3 (csb),
\* 0 (cmt) or 2 (sp, ln, cb, xb) characters; the keys read_forms gives
\* self.data are exactly these variable names.
C21_NamingRule ==
    reg.phase \in {"built", "ready"} =>
        /\ \A w \in reg.form :
              w \in reg.input_widgets <=> \E e \in PrefixTable : HasPrefix(w, e[1])
        /\ \A w \in reg.input_widgets : \A e \in PrefixTable :
              HasPrefix(w, e[1]) =>
                  reg.widget_to_var[w] = SubSeq(w, e[2] + 1, Len(w))
        /\ reg.phase = "ready" =>
              reg.keys = {reg.widget_to_var[w] : w \in reg.input_widgets}

\* a form with a widget of every prefix and an unbound widget was built
C21_Witness ==
    /\ reg.phase = "ready"
    /\ {csbKulma, cmtApu, spVoimaNorm, lnTiedotHetu, cbSivu, xbApu, rdonly_ssn,
        csOnly} \subseteq reg.form
    /\ rdonly_ssn \notin reg.input_widgets
    /\ csOnly \notin reg.input_widgets
    /\ reg.widget_to_var[csbKulma] = <<"K", "u", "l", "m", "a">>
    /\ reg.widget_to_var[cmtApu] = cmtApu
    /\ Cardinality(reg.keys) = Cardinality(reg.input_widgets)

\* the widget named as w with "Un" after the closing "Norm"
NormUnSibling(w) == w \o <<"U", "n">>

\* C22: every widget whose name ends in Norm is an autowidget whose inputs
\* are its NormUn sibling and the weight spinbox, in this order; on a form
\* where a Norm widget has no NormUn sibling init_widgets raises, and the
\* window is neither built nor shown.
C22_DerivedWiring ==
    /\ reg.phase \in {"built", "ready"} =>
          /\ reg.autowidgets = {w \in reg.form : LastK(w, 4) = cNorm}
          /\ \A w \in reg.autowidgets :
                /\ reg.autoinputs[w] = <<NormUnSibling(w), weight_widget>>
                /\ NormUnSibling(w) \in reg.form
    /\ (/\ reg.phase \in {"built", "ready", "failed"}
        /\ \E w \in reg.form : LastK(w, 4) = cNorm /\ NormUnSibling(w) \notin reg.form)
       => /\ reg.phase = "failed"
          /\ reg.exc = "KeyError"
          /\ ~reg.shown
          /\ reg.input_widgets = {}
          /\ reg.keys = {}
    /\ reg.phase = "failed" =>
          \E w \in reg.form : LastK(w, 4) = cNorm /\ NormUnSibling(w) \notin reg.form

\* init_widgets has failed on a form with the derived spinbox but not its
\* unnormalised sibling
C22_Witness ==
    /\ reg.phase = "failed"
    /\ spVoimaNorm \in reg.form
    /\ spVoimaNormUn \notin reg.form
    /\ lblNorm \notin reg.form

\* the variables a handler's log says were written into self.data
Written(log) == {log[i][2] : i \in {j \in DOMAIN log : log[j][1] = "write"}}

\* in the log every write into self.data is followed at once by one call
\* of persist for it, and there is no other call of persist
OneSavePerWrite(log, persist) ==
    /\ Len(log) % 2 = 0
    /\ \A i \in DOMAIN log :
          IF i % 2 = 1
          THEN log[i][1] = "write"
          ELSE /\ log[i][1] = persist
               /\ persist = "update" => log[i][2] = log[i - 1][2]

\* C23: given the same record and then the same user edits, the file-backed
\* and the database-backed application hold the same self.data and show the
\* same widget values; every values_changed that writes a variable makes
\* one save call for it (one save_temp, respectively one UPDATE and
\* commit of its column), the two writing the same variables in the same
\* order; the temp file and the database row agree with self.data on every
\* variable written.
C23_VariantsAgree ==
    twin.on =>
        /\ data = twin.data
        /\ wv = twin.wv
        /\ running = twin.running
        /\ last.op = "edit" =>
              /\ OneSavePerWrite(twin.flog, "save_temp")
              /\ OneSavePerWrite(twin.slog, "update")
              /\ Len(twin.flog) = Len(twin.slog)
              /\ \A i \in DOMAIN twin.flog :
                    twin.flog[i][1] = "write" => twin.slog[i] = twin.flog[i]
              /\ running => widget_to_var[last.w] \in Written(twin.flog)
              /\ \A x \in Written(twin.flog) :
                    /\ tmpfile.exists
                    /\ <<x, data[x]>> \in tmpfile.text
                    /\ twin.db.row[x] = twin.data[x]

\* an edit of the weight wrote the weight and the recomputed value in
\* both applications
C23_Witness ==
    /\ twin.on
    /\ running
    /\ last.op = "edit" /\ last.w = weight_widget
    /\ Written(twin.slog) = {vPaino, vNorm}
    /\ twin.db.row[vNorm] = Num(1, 2)
    /\ data[vNorm] = Num(1, 2)

\* C24: self.data_empty is assigned once, in __init__, before the temp
\* file is looked for, and no handler changes it: not an edit, a load, a
\* clear or a save; self.data is never the dict object of self.data_empty,
\* so a write into self.data after a load or a clear leaves self.data_empty
\* alone.
C24_EmptyRecordFrozen ==
    [][/\ data_empty' = data_empty
       /\ ~aliased'
       /\ last'.op \in {"startup", "startup_failed"} =>
             /\ Cardinality({i \in DOMAIN last'.trace :
                                last'.trace[i] = "data_empty"}) = 1
             /\ \A i, j \in DOMAIN last'.trace :
                   (last'.trace[i] = "data_empty" /\ last'.trace[j] = "temp_found")
                   => i < j]_vars

\* after a load or a clear the user has edited the weight: self.data has
\* the new weight, self.data_empty the one of the empty form
C24_Witness ==
    /\ last.op = "edit" /\ last.w = weight_widget /\ last.hook = ""
    /\ last_saved_filepath = UserPath
    /\ data[vPaino] = Num(80, 1)
    /\ data_empty[vPaino] = spinbox_novalue_text
    /\ data_empty = read_forms([w \in input_widgets |-> DefaultNative(w)])
    /\ ~aliased

\* C25: w.getVal() of a checkbox in a check state other than unchecked (0)
\* and checked (2) raises and returns neither the yes nor the no text;
\* w.setVal(val) with val neither the yes nor the no text raises and leaves
\* the check state as it was.
C25_BooleanStrict ==
    codec.kind = "xb" =>
        /\ (codec.phase = "read" /\ codec.native \notin {Num(0, 1), Num(2, 1)})
              => (codec.exc # "" /\ codec.out \notin {checkbox_yestext, checkbox_notext})
        /\ (codec.phase = "read" /\ codec.native = Num(0, 1))
              => (codec.exc = "" /\ codec.out = checkbox_notext)
        /\ (codec.phase = "read" /\ codec.native = Num(2, 1))
              => (codec.exc = "" /\ codec.out = checkbox_yestext)
        /\ (codec.phase = "set"
            /\ codec.val \notin {checkbox_yestext, checkbox_notext})
              => (codec.exc # "" /\ codec.native = codec.was)

\* a partially checked checkbox was read
C25_Witness ==
    /\ codec.kind = "xb"
    /\ codec.phase = "read"
    /\ codec.native = Num(1, 1)
    /\ codec.exc = "Exception"

\* C26: w.setVal(val) of a combobox with val none of its items raises
\* ValueError and leaves the current item as it was.
C26_InvalidChoice ==
    (codec.kind = "cb" /\ codec.phase = "set") =>
        IF codec.val \in Options(codec.w)
        THEN codec.exc = "" /\ codec.native = codec.val
        ELSE codec.exc = "ValueError" /\ codec.native = codec.was

\* a combobox showing Vasen was given a text that is none of its items
C26_Witness ==
    /\ codec.kind = "cb"
    /\ codec.phase = "set"
    /\ codec.val = Str("Keski")
    /\ codec.was = Str("Vasen")
    /\ codec.native = Str("Vasen")
    /\ codec.exc = "ValueError"

\* C27: the unit of a variable follows from the widget as it is: a spinbox
\* or a CheckDegSpinBox showing "no value" has unit "", one holding a
\* number has its suffix, a widget of any other kind has unit ""; the
\* record with units has the keys of the record and gives every key the
\* text of its value followed at once by its unit.
C27_Units ==
    (codec.phase \in {"read", "got"} /\ codec.exc = "") =>
        /\ codec.unit =
              IF codec.kind \in {"sp", "csb"} /\ codec.out # spinbox_novalue_text
              THEN Suffix(codec.w)
              ELSE ""
        /\ DOMAIN codec.with_units = {var_of(codec.w)}
        /\ codec.with_units[var_of(codec.w)] = Fmt(codec.out) \o codec.unit

\* a spinbox showing "no value" was read: its text with units has no suffix
C27_Witness ==
    /\ codec.phase = "read"
    /\ codec.kind = "sp"
    /\ codec.out = spinbox_novalue_text
    /\ codec.unit = ""
    /\ codec.with_units[var_of(codec.w)] = "Ei mitattu"

\* C28: when save_temp, called by values_changed for a user edit, cannot
\* write the temp file, values_changed does not catch the exception: it
\* reaches sys.excepthook, the application quits and handles no further
\* edit, and the temp file is left as it was.
C28_TempSaveFatal ==
    [][/\ (\E i \in DOMAIN last'.trace : last'.trace[i] = "save_temp_failed") =>
             /\ last'.op = "edit"
             /\ last'.hook = "IOError"
             /\ ~running'
             /\ tmpfile' = tmpfile
       /\ ~running => last'.op \in {"startup", "startup_failed"}]_vars

\* the application has quit on an edit whose temp file write failed; the
\* temp file of the edit before is still there
C28_Witness ==
    /\ last.op = "edit"
    /\ last.trace # <<>>
    /\ last.trace[1] = "save_temp_failed"
    /\ last.hook = "IOError"
    /\ ~running
    /\ tmpfile.exists
    /\ tmpfile.text # json_dumps(data)

\* C29: whenever the application waits for the next event, self.data
\* satisfies the normalisation rule: the value of every derived variable is
\* "no value" if the raw value or the weight in self.data is, and raw /
\* weight otherwise.
C29_RecordNormalized ==
    running =>
        \A d \in autowidgets :
            LET val == data[widget_to_var[rawOf(d)]]
                weight == data[widget_to_var[weight_widget]]
                noval == spinbox_novalue_text
            IN  IF val = noval \/ weight = noval
                THEN data[widget_to_var[d]] = noval
                ELSE weight.n # 0 => data[widget_to_var[d]] = Quot(val, weight)

\* the variables whose value in self.data the step changes
ChangedKeys == {k \in DOMAIN data : data'[k] # data[k]}

\* C30: a user edit of widget w changes in self.data at most the variable
\* of w and the variables of the autowidgets that depend on w (for a raw
\* spinbox its Norm sibling, for the weight spinbox every autowidget); an
\* edit of a widget no autowidget depends on changes exactly the variable
\* of w; self.data_empty and last_saved_filepath stay as they are.
C30_EditFrame ==
    [][last'.op = "edit" =>
          /\ DOMAIN data' = DOMAIN data
          /\ ChangedKeys \subseteq
                {widget_to_var[last'.w]}
                \cup {widget_to_var[d] : d \in autowidgets_this[last'.w]}
          /\ autowidgets_this[last'.w] = {} =>
                ChangedKeys = {widget_to_var[last'.w]}
          /\ data_empty' = data_empty
          /\ last_saved_filepath' = last_saved_filepath]_vars

\* an edit of the raw spinbox has changed its variable and the variable of
\* its Norm sibling, and left the weight alone
C30_Witness ==
    /\ last.op = "edit" /\ last.w = spVoimaNormUn /\ last.hook = ""
    /\ data[vNormUn] = Num(40, 1)
    /\ data[vNorm] = Num(1, 2)
    /\ data[vPaino] = Num(80, 1)
    /\ last_saved_filepath = UserPath

\* C31: restore_forms always releases its guards: between two handlers,
\* also after a load or a clear whose push into a control raised an
\* exception, update_dict and save_to_tmp are both true.
C31_GuardsReleased == update_dict /\ save_to_tmp

\* C32: the dirty flag is truthful: while the application runs with
\* saved_to_file set, self.data is data_empty when no path is remembered,
\* and right after a load through the dialog the file that was chosen holds
\* exactly self.data, keys and values.
C32_DirtyFlagTruthful ==
    (running /\ variant = "file" /\ saved_to_file) =>
        /\ last_saved_filepath = NoPath => data = data_empty
        /\ (last_saved_filepath # NoPath /\ last.op = "load") =>
              last.file.content = data

\* C33: the temp file is never stale: while the application runs, a temp
\* file that exists holds the serialisation of self.data, also after a
\* confirmed clear or a load that follows earlier edits.
C33_TempNeverStale ==
    (running /\ variant = "file" /\ tmpfile.exists) =>
        tmpfile.text = json_dumps(data)

\* C34: every single write of the temp file made while one user edit is
\* handled, the writes of the nested notifications of the recomputed
\* derived controls included, holds a record whose derived value is the
\* one the rule gives for the raw value and the weight of that same record.
C34_EveryWriteConsistent ==
    (twin.on /\ last.op = "edit") =>
        \A i \in DOMAIN twin.flog :
            twin.flog[i][1] = "save_temp" =>
                json_load(twin.flog[i][2])[vNorm]
                    = Normalized(json_load(twin.flog[i][2])[vNormUn],
                                 json_load(twin.flog[i][2])[vPaino])

\* the calls of values_changed nest at most two deep, the nested ones are
\* made for derived widgets only and are at most as many as there are
\* derived widgets
Bounded(calls) ==
    /\ calls.deepest <= 2
    /\ calls.inner \subseteq autowidgets
    /\ calls.nested <= Cardinality(autowidgets)

\* C35: handling one change notification ends: the derived widgets are not
\* inputs of derived widgets, a recompute raises nested notifications for
\* derived widgets only, values_changed nests at most two deep and one
\* notification brings at most as many nested ones as there are derived
\* widgets - in both variants, for an edit and for the pushes of a load.
C35_NestingBounded ==
    twin.on =>
        /\ \A a \in autowidgets : \A i \in 1..2 : autoinputs[a][i] \notin autowidgets
        /\ Bounded(twin.fcalls)
        /\ Bounded(twin.scalls)
        /\ twin.fcalls.depth = 0 /\ twin.scalls.depth = 0

\* an edit of the weight recomputed the derived widget, whose nested
\* notification ran inside the notification of the edit
C35_Witness ==
    /\ twin.on
    /\ last.op = "edit" /\ last.w = weight_widget
    /\ twin.fcalls.deepest = 2 /\ twin.scalls.deepest = 2
    /\ twin.fcalls.nested = 1
    /\ twin.fcalls.inner = {spVoimaNorm}

\* C36: a clear the user confirms leaves self.data a copy of data_empty,
\* every widget at its default, no path remembered and saved_to_file set;
\* a clear the user declines leaves self.data, the widget values,
\* last_saved_filepath and saved_to_file as they were; a clear never fails.
C36_ClearFrame ==
    [][/\ last'.op = "clear" =>
             /\ data' = data_empty
             /\ data_empty' = data_empty
             /\ ~aliased'
             /\ wv' = [w \in input_widgets |-> DefaultNative(w)]
             /\ last_saved_filepath' = NoPath
             /\ saved_to_file'
             /\ running'
       /\ last'.op = "clear_declined" =>
             UNCHANGED <<data, wv, last_saved_filepath, saved_to_file>>
       /\ last'.op # "clear_failed"]_vars

\* a confirmed clear has reset a form that showed other values of a record
\* that had been edited after it was saved
C36_Witness ==
    /\ last.op = "clear"
    /\ "notify" \in last.ev
    /\ disk.exists /\ tmpfile.exists
    /\ json_load(disk.text) # json_load(tmpfile.text)
    /\ data = data_empty
    /\ last_saved_filepath = NoPath /\ saved_to_file

\* C37: a load through the dialog that succeeds remembers the chosen path
\* and sets saved_to_file; when the user declines or picks no existing
\* file, or when the load fails with one of Config.json_io_exceptions,
\* last_saved_filepath and saved_to_file stay as they were and the
\* application keeps running, so a later save goes to the path remembered
\* before.
C37_LoadDialogFrame ==
    [][/\ last'.op = "load" =>
             /\ last'.path # NoPath
             /\ last_saved_filepath' = last'.path
             /\ saved_to_file'
       /\ (\/ last'.op = "load_declined"
           \/ last'.op = "load_failed" /\ last'.exc \in json_io_exceptions) =>
             /\ UNCHANGED <<last_saved_filepath, saved_to_file>>
             /\ running'
             /\ last'.hook = ""]_vars

\* a record loaded from one path was edited, and opening the file at the
\* other path failed
C37_Witness ==
    /\ last.op = "load_failed" /\ last.exc = "IOError"
    /\ last.path = OtherPath
    /\ last_saved_filepath = UserPath
    /\ ~saved_to_file
    /\ running

\* C38: opening a row in the database variant: every variable whose column
\* is not NULL takes the value of the column, every other variable keeps
\* its default of data_empty, the values are pushed into the widgets (an
\* input widget shows the value of its variable, a derived widget shows it
\* unless a recompute raised by a later push has overwritten it), the read
\* writes nothing into self.data through values_changed and issues no
\* UPDATE, so that the row is as it was; the open fails, with RuntimeError,
\* exactly when there is no row.
C38_OpenRow ==
    [][last'.op \in {"open", "open_failed"} =>
          /\ db' = db
          /\ "update" \notin last'.ev
          /\ "write" \notin last'.ev
          /\ last'.op = "open_failed" <=> ~db.exists
          /\ last'.op = "open_failed" => (last'.exc = "RuntimeError" /\ ~running')
          /\ last'.op = "open" =>
                /\ \A var \in Vars :
                      data'[var] = IF db.row[var] # Null THEN db.row[var]
                                   ELSE data_empty[var]
                /\ data_empty' = data_empty
                /\ \A w \in input_widgets \ autowidgets :
                      getVal(w, wv'[w]) = data'[widget_to_var[w]]
                /\ \A d \in autowidgets :
                      \/ getVal(d, wv'[d]) = data'[widget_to_var[d]]
                      \/ "overwrite" \in last'.ev]_vars

\* a row with a weight, a side and NULL in the other columns was opened:
\* the two values are in self.data and in the widgets, the other variables
\* are at their defaults, and the row still holds its NULLs
C38_Witness ==
    /\ variant = "sql" /\ last.op = "open" /\ running
    /\ db.row[vPaino] = Num(80, 1) /\ db.row[vSivu] = Str("Vasen")
    /\ db.row[vNormUn] = Null /\ db.row[vNorm] = Null
    /\ data[vPaino] = Num(80, 1) /\ data[vSivu] = Str("Vasen")
    /\ data[vNormUn] = data_empty[vNormUn] /\ data[vNorm] = data_empty[vNorm]
    /\ wv[spAntropPaino] = Num(80, 1) /\ wv[cbSivu] = Str("Vasen")
    /\ "notify" \in last.ev

=============================================================================
